---- MODULE Spec2Model ----
(***************************************************************************)
(* A model of phr3nzy/duan-sssp: the graph and its constant-degree         *)
(* transform (graph/graph.go), the block-based priority queue (ds/ds.go)   *)
(* and the BMSSP solver (sssp/sssp.go).                                    *)
(*                                                                         *)
(* Distances and weights are naturals; math.MaxFloat64 is the number       *)
(* Infinity, and float64 addition that reaches it saturates there.         *)
(* Vertices are numbered from 0 as in the source; Go slices are TLA+       *)
(* sequences (indexed from 1), linked lists are sequences from head to     *)
(* tail, and Go maps used as sets are sets whose iteration order is        *)
(* chosen nondeterministically.                                            *)
(***************************************************************************)
EXTENDS Integers, Sequences, FiniteSets, TLC

VARIABLES pc, g, src, tg, K, T, Dist, stack, ret, result, D, out,
          workers

vars == <<pc, g, src, tg, K, T, Dist, stack, ret, result, D, out,
          workers>>

(***************************************************************************)
(* Bounds of the model.                                                    *)
(***************************************************************************)
MaxN == 3
MaxE == 2
MaxW == 1
MaxPQ == 6
MaxM == 2
MaxKey == 1
MaxVal == 2
MaxCount == 4
MaxBatch == 2

(* const Infinity = math.MaxFloat64 *)
Infinity == 1000000

(***************************************************************************)
(* Small helpers for Go slices.                                            *)
(***************************************************************************)
Min2(a, b) == IF a <= b THEN a ELSE b

SeqToSet(s) == {s[i] : i \in 1..Len(s)}

(* s[i:j] of Go, with 0-based i (inclusive) and j (exclusive). *)
Slice(s, i, j) == [x \in 1..(j - i) |-> s[i + x]]

(* float64 addition: anything that reaches MaxFloat64 stays there. *)
FAdd(a, b) == IF a + b >= Infinity THEN Infinity ELSE a + b

(***************************************************************************)
(* graph/graph.go                                                          *)
(***************************************************************************)
Edge(to, w) == [To |-> to, Weight |-> w]

NewGraph(v) == [V |-> v, Adj |-> [u \in 0..(v - 1) |-> <<>>]]

AddEdge(gr, u, v, w) == [gr EXCEPT !.Adj[u] = Append(@, Edge(v, w))]

(* The edges of gr in the order of the loops "for u; for e in Adj[u]",     *)
(* each as <<u, To, Weight>>.                                              *)
RECURSIVE EdgesFrom(_, _)
EdgesFrom(gr, u) ==
    IF u >= gr.V THEN <<>>
    ELSE [i \in 1..Len(gr.Adj[u]) |->
             <<u, gr.Adj[u][i].To, gr.Adj[u][i].Weight>>]
         \o EdgesFrom(gr, u + 1)

AllEdges(gr) == EdgesFrom(gr, 0)

(* inDegree[e.To]++ over all edges *)
InDegree(gr) ==
    [v \in 0..(gr.V - 1) |->
        Cardinality({i \in 1..Len(AllEdges(gr)) : AllEdges(gr)[i][2] = v})]

(* sz := len(g.Adj[u]) + inDegree[u]; if sz == 0 { sz = 1 } *)
Sizes(gr) ==
    LET inDegree == InDegree(gr)
    IN  [u \in 0..(gr.V - 1) |->
            LET sz == Len(gr.Adj[u]) + inDegree[u]
            IN  IF sz = 0 THEN 1 ELSE sz]

RECURSIVE SumBelow(_, _)
SumBelow(f, u) == IF u <= 0 THEN 0 ELSE f[u - 1] + SumBelow(f, u - 1)

(* starts[u] = currentID; currentID += sz *)
Starts(gr) == LET sizes == Sizes(gr)
              IN  [u \in 0..(gr.V - 1) |-> SumBelow(sizes, u)]

(* BuildCycles with next := curr + 1: the last slot of a range does not    *)
(* wrap around to the first.                                               *)
RECURSIVE BuildCyclesNoWrap(_, _, _, _, _, _)
BuildCyclesNoWrap(gr, u, i, starts, sizes, acc) ==
    IF u >= gr.V THEN acc
    ELSE IF i >= sizes[u] THEN BuildCyclesNoWrap(gr, u + 1, 0, starts, sizes, acc)
    ELSE LET curr == starts[u] + i
             next == starts[u] + i + 1
         IN  BuildCyclesNoWrap(gr, u, i + 1, starts, sizes,
                 [G           |-> AddEdge(acc.G, curr, next, 0),
                  NewToOrigin |-> [acc.NewToOrigin EXCEPT ![curr] = u]])

(* "Create zero-weight cycles/chains": the loops over u and i, with        *)
(* newG.AddEdge(curr, next, 0) and newToOrigin[curr] = u in each round.    *)
RECURSIVE BuildCycles(_, _, _, _, _, _)
BuildCycles(gr, u, i, starts, sizes, acc) ==
    IF u >= gr.V THEN acc
    ELSE IF i >= sizes[u] THEN BuildCycles(gr, u + 1, 0, starts, sizes, acc)
    ELSE LET curr == starts[u] + i
             next == starts[u] + ((i + 1) % sizes[u])
         IN  BuildCycles(gr, u, i + 1, starts, sizes,
                 [G           |-> AddEdge(acc.G, curr, next, 0),
                  NewToOrigin |-> [acc.NewToOrigin EXCEPT ![curr] = u]])

(* AddRealEdges without the slot counters: every real edge leaves the      *)
(* first node of u's range and enters the first node of v's range.         *)
RECURSIVE AddRealEdgesNoSlots(_, _, _, _)
AddRealEdgesNoSlots(es, slots, starts, newG) ==
    IF es = <<>> THEN newG
    ELSE LET u == es[1][1]
             v == es[1][2]
             w == es[1][3]
         IN  AddRealEdgesNoSlots(Tail(es), slots, starts,
                 AddEdge(newG, starts[u], starts[v], w))

(* "Add real edges": each edge takes the next slot of u and then of v. *)
RECURSIVE AddRealEdges(_, _, _, _)
AddRealEdges(es, slots, starts, newG) ==
    IF es = <<>> THEN newG
    ELSE LET u == es[1][1]
             v == es[1][2]
             w == es[1][3]
             uSlot  == slots[u]
             slots1 == [slots EXCEPT ![u] = @ + 1]
             uNode  == starts[u] + uSlot
             vSlot  == slots1[v]
             slots2 == [slots1 EXCEPT ![v] = @ + 1]
             vNode  == starts[v] + vSlot
         IN  AddRealEdges(Tail(es), slots2, starts, AddEdge(newG, uNode, vNode, w))

(* ToConstantDegree adding the real edges to a fresh graph: the cycle      *)
(* edges are lost.                                                         *)
ToConstantDegreeNoCycles(gr) ==
    LET sizes     == Sizes(gr)
        starts    == Starts(gr)
        currentID == SumBelow(sizes, gr.V)
        cyc       == BuildCycles(gr, 0, 0, starts, sizes,
                         [G           |-> NewGraph(currentID),
                          NewToOrigin |-> [x \in 0..(currentID - 1) |-> 0]])
        newG      == AddRealEdges(AllEdges(gr), [u \in 0..(gr.V - 1) |-> 0],
                                  starts, NewGraph(currentID))
    IN  [G           |-> newG,
         OriginalTo  |-> starts,
         NewToOrigin |-> cyc.NewToOrigin]

ToConstantDegree(gr) ==
    LET sizes     == Sizes(gr)
        starts    == Starts(gr)
        currentID == SumBelow(sizes, gr.V)
        cyc       == BuildCycles(gr, 0, 0, starts, sizes,
                         [G           |-> NewGraph(currentID),
                          NewToOrigin |-> [x \in 0..(currentID - 1) |-> 0]])
        newG      == AddRealEdges(AllEdges(gr), [u \in 0..(gr.V - 1) |-> 0],
                                  starts, cyc.G)
    IN  [G           |-> newG,
         OriginalTo  |-> starts,
         NewToOrigin |-> cyc.NewToOrigin]

(* res[i] = dist[startNode] *)
MapDistances(t, dist) ==
    [i \in DOMAIN t.OriginalTo |-> dist[t.OriginalTo[i]]]

(***************************************************************************)
(* ds/ds.go: the block-based priority queue.  A block's linked list is the *)
(* sequence of its items from head to tail; block.size is its length.      *)
(***************************************************************************)
Item(k, v) == [Key |-> k, Value |-> v]

newBlock == [items |-> <<>>, upperBound |-> 0]

NewDataStructure(m) ==
    [M |-> m, B |-> Infinity, Count |-> 0, d0 |-> <<>>, d1 |-> <<>>]

(* sort.Slice(items, Value <) on the short slices used here: insertion     *)
(* sort, which moves an item left only past strictly larger values.        *)
RECURSIVE InsertByValue(_, _)
InsertByValue(sorted, x) ==
    IF sorted = <<>> THEN <<x>>
    ELSE IF x.Value < sorted[Len(sorted)].Value
         THEN Append(InsertByValue(SubSeq(sorted, 1, Len(sorted) - 1), x),
                     sorted[Len(sorted)])
         ELSE Append(sorted, x)

RECURSIVE SortByValue(_)
SortByValue(items) ==
    IF items = <<>> THEN <<>>
    ELSE InsertByValue(SortByValue(SubSeq(items, 1, Len(items) - 1)),
                       items[Len(items)])

Reverse(s) == [i \in 1..Len(s) |-> s[Len(s) + 1 - i]]

(* sort.Search(len(d1), upperBound >= val): binary search over [i, j) *)
RECURSIVE SearchD1(_, _, _, _)
SearchD1(d1, val, i, j) ==
    IF i >= j THEN i
    ELSE LET h == (i + j) \div 2
         IN  IF ~(d1[h + 1].upperBound >= val)
             THEN SearchD1(d1, val, h + 1, j)
             ELSE SearchD1(d1, val, i, h)

(* split giving the right half the value of its last item as upperBound    *)
(* instead of the old block's upperBound.                                  *)
splitOwnBound(ds, d1Index) ==
    LET b     == ds.d1[d1Index + 1]
        items == SortByValue(b.items)
        mid   == Len(items) \div 2
        newB  == [items |-> Slice(items, mid, Len(items)),
                  upperBound |-> items[Len(items)].Value]
        oldB  == [items |-> Slice(items, 0, mid),
                  upperBound |-> items[mid].Value]
    IN  [ds EXCEPT !.d1 = SubSeq(ds.d1, 1, d1Index) \o <<oldB, newB>>
                          \o SubSeq(ds.d1, d1Index + 2, Len(ds.d1))]

(* split(d1Index), d1Index counted from 0 *)
split(ds, d1Index) ==
    LET b     == ds.d1[d1Index + 1]
        items == SortByValue(b.items)
        mid   == Len(items) \div 2
        newB  == [items |-> Slice(items, mid, Len(items)),
                  upperBound |-> b.upperBound]
        oldB  == [items |-> Slice(items, 0, mid),
                  upperBound |-> items[mid].Value]
    IN  [ds EXCEPT !.d1 = SubSeq(ds.d1, 1, d1Index) \o <<oldB, newB>>
                          \o SubSeq(ds.d1, d1Index + 2, Len(ds.d1))]

(* Insert splitting one item late: size > M + 1. *)
InsertLateSplit(ds, key, val) ==
    LET item   == Item(key, val)
        found  == SearchD1(ds.d1, val, 0, Len(ds.d1))
        fresh  == (found = Len(ds.d1)) /\ (Len(ds.d1) = 0)
        d1a    == IF fresh
                  THEN <<[newBlock EXCEPT !.upperBound = Infinity]>>
                  ELSE ds.d1
        idx    == IF found = Len(ds.d1)
                  THEN (IF fresh THEN 0 ELSE Len(ds.d1) - 1)
                  ELSE found
        d1b    == [d1a EXCEPT ![idx + 1].items = <<item>> \o @]
        ds1    == [ds EXCEPT !.Count = @ + 1, !.d1 = d1b]
    IN  IF Len(d1b[idx + 1].items) > ds.M + 1 THEN split(ds1, idx) ELSE ds1

Insert(ds, key, val) ==
    LET item   == Item(key, val)
        found  == SearchD1(ds.d1, val, 0, Len(ds.d1))
        fresh  == (found = Len(ds.d1)) /\ (Len(ds.d1) = 0)
        d1a    == IF fresh
                  THEN <<[newBlock EXCEPT !.upperBound = Infinity]>>
                  ELSE ds.d1
        idx    == IF found = Len(ds.d1)
                  THEN (IF fresh THEN 0 ELSE Len(ds.d1) - 1)
                  ELSE found
        d1b    == [d1a EXCEPT ![idx + 1].items = <<item>> \o @]
        ds1    == [ds EXCEPT !.Count = @ + 1, !.d1 = d1b]
    IN  IF Len(d1b[idx + 1].items) > ds.M THEN split(ds1, idx) ELSE ds1

(* The chunk loop advancing by M + 1: the item after each chunk is left    *)
(* out.                                                                    *)
RECURSIVE PrependChunksSkip(_, _, _, _)
PrependChunksSkip(d0, items, i, m) ==
    IF i >= Len(items) THEN d0
    ELSE LET end   == Min2(i + m, Len(items))
             chunk == Slice(items, i, end)
             blk   == [items |-> Reverse(chunk),
                       upperBound |-> chunk[Len(chunk)].Value]
         IN  PrependChunksSkip(<<blk>> \o d0, items, i + m + 1, m)

(* The chunk loop of BatchPrepend over the sorted items, from offset i. *)
RECURSIVE PrependChunks(_, _, _, _)
PrependChunks(d0, items, i, m) ==
    IF i >= Len(items) THEN d0
    ELSE LET end   == Min2(i + m, Len(items))
             chunk == Slice(items, i, end)
             blk   == [items |-> Reverse(chunk),
                       upperBound |-> chunk[Len(chunk)].Value]
         IN  PrependChunks(<<blk>> \o d0, items, i + m, m)

BatchPrepend(ds, items) ==
    IF Len(items) = 0 THEN ds
    ELSE [ds EXCEPT !.Count = @ + Len(items),
                    !.d0 = PrependChunks(ds.d0, SortByValue(items), 0, ds.M)]

sortBlock(b) ==
    IF Len(b.items) < 2 THEN b ELSE [b EXCEPT !.items = SortByValue(@)]

(* One pass "for _, blk := range list" of Pull: drain while fewer than M   *)
(* items are collected, keep the blocks that still hold items.             *)
RECURSIVE DrainList(_, _, _, _, _)
DrainList(blocks, active, collected, m, sorting) ==
    IF blocks = <<>> THEN [active |-> active, collected |-> collected]
    ELSE LET blk0 == blocks[1]
             blk  == IF Len(collected) < m /\ sorting THEN sortBlock(blk0) ELSE blk0
             take == IF Len(collected) < m
                     THEN Min2(Len(blk.items), m - Len(collected))
                     ELSE 0
             rest == [blk EXCEPT !.items = SubSeq(@, take + 1, Len(@))]
         IN  DrainList(Tail(blocks),
                       IF Len(rest.items) > 0 THEN Append(active, rest) ELSE active,
                       collected \o SubSeq(blk.items, 1, take), m, sorting)

peekBlock(b) == IF b.items = <<>> THEN Infinity ELSE b.items[1].Value

(* Pull lowering Count only for the items drained from D0. *)
PullCountD0Only(ds) ==
    LET p0    == DrainList(ds.d0, <<>>, <<>>, ds.M, FALSE)
        p1    == IF Len(p0.collected) < ds.M
                 THEN DrainList(ds.d1, <<>>, p0.collected, ds.M, TRUE)
                 ELSE [active |-> ds.d1, collected |-> p0.collected]
        count == ds.Count - Len(p0.collected)
        peek1 == count > 0 /\ Len(p0.active) = 0 /\ Len(p1.active) > 0
        d1    == IF peek1 THEN [p1.active EXCEPT ![1] = sortBlock(@)] ELSE p1.active
        Bi    == IF count > 0
                 THEN (IF Len(p0.active) > 0 THEN peekBlock(p0.active[1])
                       ELSE IF Len(d1) > 0 THEN peekBlock(d1[1])
                       ELSE Infinity)
                 ELSE Infinity
    IN  [ds        |-> [ds EXCEPT !.Count = count, !.d0 = p0.active, !.d1 = d1],
         collected |-> p1.collected,
         Bi        |-> Bi]

(* Pull: the data structure after the call, the collected items and Bi. *)
Pull(ds) ==
    LET p0    == DrainList(ds.d0, <<>>, <<>>, ds.M, FALSE)
        p1    == IF Len(p0.collected) < ds.M
                 THEN DrainList(ds.d1, <<>>, p0.collected, ds.M, TRUE)
                 ELSE [active |-> ds.d1, collected |-> p0.collected]
        count == ds.Count - Len(p1.collected)
        peek1 == count > 0 /\ Len(p0.active) = 0 /\ Len(p1.active) > 0
        d1    == IF peek1 THEN [p1.active EXCEPT ![1] = sortBlock(@)] ELSE p1.active
        Bi    == IF count > 0
                 THEN (IF Len(p0.active) > 0 THEN peekBlock(p0.active[1])
                       ELSE IF Len(d1) > 0 THEN peekBlock(d1[1])
                       ELSE Infinity)
                 ELSE Infinity
    IN  [ds        |-> [ds EXCEPT !.Count = count, !.d0 = p0.active, !.d1 = d1],
         collected |-> p1.collected,
         Bi        |-> Bi]

(***************************************************************************)
(* container/heap over PriorityQueue (Less compares priority), as used by  *)
(* BaseCase.  Positions are 0-based as in the library.                     *)
(***************************************************************************)
PQItem(u, priority) == [u |-> u, priority |-> priority]

Less(h, i, j) == h[i + 1].priority < h[j + 1].priority

Swap(h, i, j) == [h EXCEPT ![i + 1] = h[j + 1], ![j + 1] = h[i + 1]]

RECURSIVE up(_, _)
up(h, j) ==
    LET i == IF j = 0 THEN 0 ELSE (j - 1) \div 2
    IN  IF i = j \/ ~Less(h, j, i) THEN h ELSE up(Swap(h, i, j), i)

RECURSIVE down(_, _, _)
down(h, i, n) ==
    LET j1 == 2 * i + 1
    IN  IF j1 >= n THEN h
        ELSE LET j == IF j1 + 1 < n /\ Less(h, j1 + 1, j1) THEN j1 + 1 ELSE j1
             IN  IF ~Less(h, j, i) THEN h ELSE down(Swap(h, i, j), j, n)

HeapPush(h, x) == up(Append(h, x), Len(h))

(* heap.Pop: swap the root with the last item, sift down, cut the last. *)
HeapPop(h) ==
    LET n  == Len(h) - 1
        h2 == down(Swap(h, 0, n), 0, n)
    IN  [item |-> h2[n + 1], pq |-> SubSeq(h2, 1, n)]

(***************************************************************************)
(* sssp/sssp.go: the solver.                                               *)
(***************************************************************************)
RECURSIVE Pow2(_)
Pow2(e) == IF e <= 0 THEN 1 ELSE 2 * Pow2(e - 1)

(* int(math.Floor(math.Pow(math.Log(n), 1.0/3.0))): 0 for n < 3, 1 up to    *)
(* n = 2980 (ln n < 8), 2 beyond (within the sizes considered here).       *)
FloorCbrtLn(n) == IF n < 3 THEN 0 ELSE IF n <= 2980 THEN 1 ELSE 2

(* int(math.Floor(math.Pow(math.Log(n), 2.0/3.0))): 0 for n < 3, 1 up to    *)
(* n = 16, 2 up to n = 180, 3 up to n = 2980.                              *)
FloorLn23(n) ==
    IF n < 3 THEN 0 ELSE IF n <= 16 THEN 1 ELSE IF n <= 180 THEN 2 ELSE 3

KOf(n) == IF FloorCbrtLn(n) < 2 THEN 2 ELSE FloorCbrtLn(n)

TOf(n) == IF FloorLn23(n) < 2 THEN 2 ELSE FloorLn23(n)

(* int(math.Ceil(math.Log(n) / float64(t))) for t = 2: the least l with    *)
(* n <= e^(2l), that is n <= 1, 7, 54, 403.                                *)
LevelOf(n) ==
    IF n <= 1 THEN 0 ELSE IF n <= 7 THEN 1 ELSE IF n <= 54 THEN 2 ELSE 3

(* The locals of one call BMSSP(l, B, S) and of its callees FindPivots and *)
(* BaseCase.  pc is the position of the call.                              *)
Frame(l, B, S) ==
    [l |-> l, B |-> B, S |-> S, pc |-> "enter",
     W |-> <<>>, inW |-> {}, i |-> 0, Wi |-> <<>>, edges |-> <<>>,
     D |-> NewDataStructure(1), U |-> {}, Si |-> <<>>, Bi |-> 0, Bip |-> 0,
     uset |-> {}, utail |-> <<>>, Kitems |-> <<>>,
     U0 |-> {}, pq |-> <<>>]

Top == stack[Len(stack)]

SetTop(f) == [stack EXCEPT ![Len(stack)] = f]

(* The edges visited by "for _, u := range vs { for _, edge := range       *)
(* s.G.Adj[u]", each as <<u, To, Weight>>.                                 *)
RECURSIVE EdgesOf(_, _)
EdgesOf(gr, vs) ==
    IF vs = <<>> THEN <<>>
    ELSE [i \in 1..Len(gr.Adj[vs[1]]) |->
             <<vs[1], gr.Adj[vs[1]][i].To, gr.Adj[vs[1]][i].Weight>>]
         \o EdgesOf(gr, Tail(vs))

(* finalizeBMSSP: the keys of the map U in map order, then the w of W with *)
(* Dist[w] < B that are not in U, in the order of W.                       *)
finalizeBMSSP(B, W, U, dist) ==
    [B     |-> B,
     uset  |-> U,
     utail |-> SelectSeq(W, LAMBDA w : dist[w] < B /\ w \notin U)]

buildFinalSet(U, W, bound, dist) ==
    U \cup {w \in SeqToSet(W) : dist[w] < bound}

(* initializeDataStructure: M and the Insert of every pivot *)
RECURSIVE InsertAll(_, _, _)
InsertAll(ds, P, dist) ==
    IF P = <<>> THEN ds
    ELSE InsertAll(Insert(ds, P[1], dist[P[1]]), Tail(P), dist)

(* initializeDataStructure inserting every pivot twice. *)
initializeDataStructureTwice(l, P, dist) ==
    LET M0 == Pow2((l - 1) * T)
        M  == IF M0 < 1 THEN 1 ELSE M0
    IN  InsertAll(NewDataStructure(M), P \o P, dist)

initializeDataStructure(l, P, dist) ==
    LET M0 == Pow2((l - 1) * T)
        M  == IF M0 < 1 THEN 1 ELSE M0
    IN  InsertAll(NewDataStructure(M), P, dist)

(* batchPrepend: K, then the x of Si with Bi_prime <= Dist[x] < Bi *)
batchPrepend(ds, Kitems, Si, Bi_prime, Bi, dist) ==
    LET keep == SelectSeq(Si, LAMBDA x : dist[x] >= Bi_prime /\ dist[x] < Bi)
    IN  BatchPrepend(ds, Kitems \o [i \in 1..Len(keep) |-> Item(keep[i], dist[keep[i]])])

(* relaxKSteps writing newDist without comparing it to Dist[to]. *)
relaxKStepsEdgeNoGuard(f, dist, e) ==
    LET u == e[1]
        to == e[2]
        newDist == FAdd(dist[u], e[3])
    IN  [dist  |-> [dist EXCEPT ![to] = newDist],
         frame |-> IF newDist < f.B /\ to \notin f.inW
                   THEN [f EXCEPT !.edges = Tail(@), !.Wi = Append(@, to),
                                  !.inW = @ \cup {to}, !.W = Append(@, to)]
                   ELSE [f EXCEPT !.edges = Tail(@)]]

(* One edge of relaxKSteps: the strict relaxation and the growth of W. *)
relaxKStepsEdge(f, dist, e) ==
    LET u == e[1]
        to == e[2]
        newDist == FAdd(dist[u], e[3])
    IN  IF newDist < dist[to]
        THEN [dist  |-> [dist EXCEPT ![to] = newDist],
              frame |-> IF newDist < f.B /\ to \notin f.inW
                        THEN [f EXCEPT !.edges = Tail(@), !.Wi = Append(@, to),
                                       !.inW = @ \cup {to}, !.W = Append(@, to)]
                        ELSE [f EXCEPT !.edges = Tail(@)]]
        ELSE [dist |-> dist, frame |-> [f EXCEPT !.edges = Tail(@)]]

(* makeTreeSizeCalculator / countTreeChildren: the memoised recursion,     *)
(* threading memoSize.  |Dist[v] - (Dist[u] + w)| < 1e-9 is equality on    *)
(* the integral distances of the model.                                    *)
RECURSIVE calcSize(_, _, _, _, _), countTreeChildren(_, _, _, _, _, _, _)
(* calcSize answering 0 for a vertex that is still on the stack. *)
calcSizeCycleZero(gr, dist, inW, memoSize, u) ==
    IF memoSize[u] > 0 THEN [count |-> memoSize[u], memoSize |-> memoSize]
    ELSE IF memoSize[u] = -1 THEN [count |-> 0, memoSize |-> memoSize]
    ELSE LET r     == countTreeChildren(gr, dist, inW,
                                        [memoSize EXCEPT ![u] = -1], u, 1, 0)
             count == 1 + r.count
         IN  [count |-> count, memoSize |-> [r.memoSize EXCEPT ![u] = count]]

calcSize(gr, dist, inW, memoSize, u) ==
    IF memoSize[u] > 0 THEN [count |-> memoSize[u], memoSize |-> memoSize]
    ELSE IF memoSize[u] = -1 THEN [count |-> 1, memoSize |-> memoSize]
    ELSE LET r     == countTreeChildren(gr, dist, inW,
                                        [memoSize EXCEPT ![u] = -1], u, 1, 0)
             count == 1 + r.count
         IN  [count |-> count, memoSize |-> [r.memoSize EXCEPT ![u] = count]]

countTreeChildren(gr, dist, inW, memoSize, u, idx, count) ==
    IF idx > Len(gr.Adj[u]) THEN [count |-> count, memoSize |-> memoSize]
    ELSE LET edge == gr.Adj[u][idx]
             v    == edge.To
         IN  IF v \in inW /\ dist[v] = FAdd(dist[u], edge.Weight)
             THEN LET r == calcSize(gr, dist, inW, memoSize, v)
                  IN  countTreeChildren(gr, dist, inW, r.memoSize, u, idx + 1,
                                        count + r.count)
             ELSE countTreeChildren(gr, dist, inW, memoSize, u, idx + 1, count)

(* computePivots: the u of S, in order, with calcSize(u) >= K *)
RECURSIVE PivotsFrom(_, _, _, _, _)
PivotsFrom(gr, dist, inW, memoSize, S) ==
    IF S = <<>> THEN <<>>
    ELSE LET r == calcSize(gr, dist, inW, memoSize, S[1])
         IN  (IF r.count >= K THEN <<S[1]>> ELSE <<>>)
             \o PivotsFrom(gr, dist, inW, r.memoSize, Tail(S))

computePivots(gr, dist, S, inW) ==
    PivotsFrom(gr, dist, inW, [v \in 0..(gr.V - 1) |-> 0], S)

(* One edge of relaxEdgesSequential with newDist := s.Dist[u], the weight  *)
(* of the edge left out.                                                   *)
relaxEdgesSequentialEdgeNoWeight(f, dist, e) ==
    LET u == e[1]
        to == e[2]
        newDist == dist[u]
    IN  IF newDist <= dist[to]
        THEN [dist  |-> [dist EXCEPT ![to] = newDist],
              frame |-> IF newDist >= f.Bi /\ newDist < f.B
                        THEN [f EXCEPT !.edges = Tail(@),
                                       !.D = Insert(@, to, newDist)]
                        ELSE IF newDist >= f.Bip /\ newDist < f.Bi
                        THEN [f EXCEPT !.edges = Tail(@),
                                       !.Kitems = Append(@, Item(to, newDist))]
                        ELSE [f EXCEPT !.edges = Tail(@)]]
        ELSE [dist |-> dist, frame |-> [f EXCEPT !.edges = Tail(@)]]

(* One edge of relaxEdgesSequential: relaxation with <=, then Insert into  *)
(* D for [Bi, B) or a pending item of K for [Bi_prime, Bi).                *)
relaxEdgesSequentialEdge(f, dist, e) ==
    LET u == e[1]
        to == e[2]
        newDist == FAdd(dist[u], e[3])
    IN  IF newDist <= dist[to]
        THEN [dist  |-> [dist EXCEPT ![to] = newDist],
              frame |-> IF newDist >= f.Bi /\ newDist < f.B
                        THEN [f EXCEPT !.edges = Tail(@),
                                       !.D = Insert(@, to, newDist)]
                        ELSE IF newDist >= f.Bip /\ newDist < f.Bi
                        THEN [f EXCEPT !.edges = Tail(@),
                                       !.Kitems = Append(@, Item(to, newDist))]
                        ELSE [f EXCEPT !.edges = Tail(@)]]
        ELSE [dist |-> dist, frame |-> [f EXCEPT !.edges = Tail(@)]]

(* BaseCase: "for _, x := range S { U0[x] = true; heap.Push(...) }" *)
RECURSIVE PushAll(_, _, _)
PushAll(h, S, dist) ==
    IF S = <<>> THEN h
    ELSE PushAll(HeapPush(h, PQItem(S[1], dist[S[1]])), Tail(S), dist)

(* One edge of the BaseCase loop: relaxation with <= below B, and a push. *)
BaseCaseEdge(f, dist, e) ==
    LET u == e[1]
        v == e[2]
        w == e[3]
    IN  IF FAdd(dist[u], w) <= dist[v] /\ FAdd(dist[u], w) < f.B
        THEN [dist  |-> [dist EXCEPT ![v] = FAdd(dist[u], w)],
              frame |-> [f EXCEPT !.edges = Tail(@),
                                  !.pq = HeapPush(@, PQItem(v, FAdd(dist[u], w)))]]
        ELSE [dist |-> dist, frame |-> [f EXCEPT !.edges = Tail(@)]]

(* maxD := 0.0; for u := range U0 { if Dist[u] > maxD { maxD = Dist[u] } } *)
RECURSIVE MaxDist(_, _)
MaxDist(U0, dist) ==
    IF U0 = {} THEN 0
    ELSE LET u == CHOOSE x \in U0 : TRUE
             m == MaxDist(U0 \ {u}, dist)
         IN  IF dist[u] > m THEN dist[u] ELSE m

(* The result of BaseCase once its loop has ended. *)
BaseCaseResult(f, dist) ==
    IF Cardinality(f.U0) <= K
    THEN [B |-> f.B, uset |-> f.U0, utail |-> <<>>]
    ELSE LET maxD == MaxDist(f.U0, dist)
         IN  [B |-> maxD, uset |-> {u \in f.U0 : dist[u] < maxD}, utail |-> <<>>]

(***************************************************************************)
(* The inputs: every graph of at most MaxN vertices and MaxE edges with    *)
(* weights 0..MaxW (edges listed by tail vertex, which fixes every Adj[u]),*)
(* and the seeded graphs of the documentation.                             *)
(***************************************************************************)
RECURSIVE BuildGraph(_, _)
BuildGraph(gr, es) ==
    IF es = <<>> THEN gr
    ELSE BuildGraph(AddEdge(gr, es[1][1], es[1][2], es[1][3]), Tail(es))

EdgeLists(n) ==
    {es \in UNION {[1..m -> (0..(n - 1)) \X (0..(n - 1)) \X (0..MaxW)] : m \in 0..MaxE} :
        \A i \in 1..(Len(es) - 1) : es[i][1] <= es[i + 1][1]}

BoundedGraphs ==
    UNION {{BuildGraph(NewGraph(n), es) : es \in EdgeLists(n)} : n \in 1..MaxN}

(* QUICKSTART.md, "Basic Usage" *)
QuickstartGraph ==
    BuildGraph(NewGraph(5), << <<0, 1, 10>>, <<0, 2, 5>>, <<1, 2, 2>>, <<1, 3, 1>>,
                               <<2, 3, 9>>, <<2, 4, 2>>, <<3, 4, 4>> >>)

(* Two parallel edges out of one vertex among isolated vertices. *)
ParallelEdgesGraph ==
    BuildGraph(NewGraph(6), << <<2, 3, 3>>, <<2, 3, 1>> >>)

(* The seeded scenarios: a single vertex; one edge among four vertices;     *)
(* three parallel edges; a zero-weight cycle.                              *)
SingleVertexGraph == NewGraph(1)

DisconnectedGraph == BuildGraph(NewGraph(4), << <<0, 1, 1>> >>)

TripleEdgeGraph ==
    BuildGraph(NewGraph(2), << <<0, 1, 5>>, <<0, 1, 2>>, <<0, 1, 7>> >>)

ZeroCycleGraph ==
    BuildGraph(NewGraph(3), << <<0, 1, 0>>, <<1, 2, 0>>, <<2, 0, 0>> >>)

SeededGraphs ==
    {QuickstartGraph, ParallelEdgesGraph, SingleVertexGraph, DisconnectedGraph,
     TripleEdgeGraph, ZeroCycleGraph}

(* Three self-loops on the source, one of positive weight. *)
SelfLoopGraph ==
    BuildGraph(NewGraph(3), << <<0, 0, 0>>, <<0, 0, 2>>, <<0, 0, 0>> >>)

(* The source on a cycle through another vertex. *)
SourceCycleGraph ==
    BuildGraph(NewGraph(4), << <<0, 1, 2>>, <<1, 0, 0>>, <<1, 0, 1>> >>)

InputGraphs == BoundedGraphs \cup SeededGraphs \cup {SelfLoopGraph, SourceCycleGraph}

NoTransform == [G |-> NewGraph(0), OriginalTo |-> <<>>, NewToOrigin |-> <<>>]

NoResult == [B |-> 0, uset |-> {}, utail |-> <<>>]

NoPull == [op |-> "none", collected |-> <<>>, Bi |-> 0]

Init ==
    /\ pc = "new"
    /\ g \in InputGraphs
    /\ src \in 0..(g.V - 1)
    /\ tg = NoTransform
    /\ K = 0
    /\ T = 0
    /\ Dist = <<>>
    /\ stack = <<>>
    /\ ret = NoResult
    /\ result = <<>>
    /\ D = NewDataStructure(1)
    /\ out = NoPull
    /\ workers = <<>>

(* tg := g.ToConstantDegree() *)
Transform ==
    /\ pc = "new"
    /\ tg' = ToConstantDegree(g)
    /\ pc' = "transformed"
    /\ UNCHANGED <<g, src, K, T, Dist, stack, ret, result, D, out,
                 workers>>

(* solver := NewSolver(tg.G) *)
NewSolver ==
    /\ pc = "transformed"
    /\ K' = KOf(tg.G.V)
    /\ T' = TOf(tg.G.V)
    /\ Dist' = [v \in 0..(tg.G.V - 1) |-> 0]
    /\ pc' = "solver"
    /\ UNCHANGED <<g, src, tg, stack, ret, result, D, out,
                 workers>>

(* Run without the assignment s.Dist[source] = 0. *)
RunNoSourceInit ==
    /\ pc = "solver"
    /\ LET source == tg.OriginalTo[src]
       IN  /\ Dist' = [v \in 0..(tg.G.V - 1) |-> Infinity]
           /\ stack' = <<Frame(LevelOf(tg.G.V), Infinity, <<source>>)>>
    /\ pc' = "run"
    /\ UNCHANGED <<g, src, tg, K, T, ret, result, D, out,
                 workers>>

(* solver.Run(tg.OriginalTo[src]) up to the call of BMSSP *)
Run ==
    /\ pc = "solver"
    /\ LET source == tg.OriginalTo[src]
       IN  /\ Dist' = [[v \in 0..(tg.G.V - 1) |-> Infinity] EXCEPT ![source] = 0]
           /\ stack' = <<Frame(LevelOf(tg.G.V), Infinity, <<source>>)>>
    /\ pc' = "run"
    /\ UNCHANGED <<g, src, tg, K, T, ret, result, D, out,
                 workers>>

(* BMSSP: l == 0 goes to BaseCase (its seeding loop), otherwise FindPivots *)
(* starts (inW, W_list and the first round over S).                        *)
BMSSPEnter ==
    /\ pc = "run" /\ stack # <<>> /\ Top.pc = "enter"
    /\ LET f == Top
       IN  stack' = SetTop(
               IF f.l = 0
               THEN [f EXCEPT !.pc = "bc", !.U0 = SeqToSet(f.S),
                              !.pq = PushAll(<<>>, f.S, Dist)]
               ELSE [f EXCEPT !.pc = "fp", !.inW = SeqToSet(f.S), !.W = f.S,
                              !.i = 1, !.Wi = <<>>, !.edges = EdgesOf(tg.G, f.S)])
    /\ UNCHANGED <<pc, g, src, tg, K, T, Dist, ret, result, D, out,
                 workers>>

(* relaxKSteps: one edge of the round i *)
FindPivotsRelax ==
    /\ pc = "run" /\ stack # <<>> /\ Top.pc = "fp" /\ Top.edges # <<>>
    /\ LET r == relaxKStepsEdge(Top, Dist, Head(Top.edges))
       IN  /\ Dist' = r.dist
           /\ stack' = SetTop(r.frame)
    /\ UNCHANGED <<pc, g, src, tg, K, T, ret, result, D, out,
                 workers>>

(* The rest of BMSSP inserting every vertex of W, not only the pivots. *)
AfterPivotsAllW(f, P) ==
    IF P = <<>>
    THEN /\ ret' = finalizeBMSSP(f.B, f.W, {}, Dist)
         /\ stack' = SetTop([f EXCEPT !.pc = "ret"])
    ELSE /\ ret' = ret
         /\ stack' = SetTop([f EXCEPT !.pc = "loop", !.U = {},
                                      !.D = initializeDataStructure(f.l, f.W, Dist)])

(* The rest of BMSSP once FindPivots has returned P: the empty-P return,   *)
(* or initializeDataStructure and the entry of processMainLoop.            *)
AfterPivots(f, P) ==
    IF P = <<>>
    THEN /\ ret' = finalizeBMSSP(f.B, f.W, {}, Dist)
         /\ stack' = SetTop([f EXCEPT !.pc = "ret"])
    ELSE /\ ret' = ret
         /\ stack' = SetTop([f EXCEPT !.pc = "loop", !.U = {},
                                      !.D = initializeDataStructure(f.l, P, Dist)])

(* The end of a round of relaxKSteps: the early exit when W outgrew        *)
(* K*|S| (P = S), the next round, or after K rounds computePivots.         *)
FindPivotsRound ==
    /\ pc = "run" /\ stack # <<>> /\ Top.pc = "fp" /\ Top.edges = <<>>
    /\ LET f == Top
       IN  IF Len(f.W) > K * Len(f.S)
           THEN AfterPivots(f, f.S)
           ELSE IF f.i >= K
           THEN AfterPivots(f, computePivots(tg.G, Dist, f.S, f.inW))
           ELSE /\ stack' = SetTop([f EXCEPT !.i = @ + 1, !.Wi = <<>>,
                                             !.edges = EdgesOf(tg.G, f.Wi)])
                /\ ret' = ret
    /\ UNCHANGED <<pc, g, src, tg, K, T, Dist, result, D, out,
                 workers>>

(* processMainLoop with a Pull that leaves the pulled items in D. *)
MainLoopKeepPulled ==
    /\ pc = "run" /\ stack # <<>> /\ Top.pc = "loop"
    /\ LET f     == Top
           limit == K * Pow2(f.l * T)
       IN  IF Cardinality(f.U) < limit /\ f.D.Count > 0
           THEN LET p  == Pull(f.D)
                    Si == [i \in 1..Len(p.collected) |-> p.collected[i].Key]
                IN  /\ stack' = Append(SetTop([f EXCEPT !.pc = "wait",
                                                        !.Si = Si, !.Bi = p.Bi]),
                                       Frame(f.l - 1, p.Bi, Si))
                    /\ ret' = ret
           ELSE /\ ret' = finalizeBMSSP(f.B, f.W, f.U, Dist)
                /\ stack' = SetTop([f EXCEPT !.pc = "ret"])
    /\ UNCHANGED <<pc, g, src, tg, K, T, Dist, result, D, out,
                 workers>>

(* processMainLoop: the loop test, pullAndExtract and the recursive call,  *)
(* or the exit of the loop and finalizeBMSSP.                              *)
MainLoop ==
    /\ pc = "run" /\ stack # <<>> /\ Top.pc = "loop"
    /\ LET f     == Top
           limit == K * Pow2(f.l * T)
       IN  IF Cardinality(f.U) < limit /\ f.D.Count > 0
           THEN LET p  == Pull(f.D)
                    Si == [i \in 1..Len(p.collected) |-> p.collected[i].Key]
                IN  /\ stack' = Append(SetTop([f EXCEPT !.pc = "wait", !.D = p.ds,
                                                        !.Si = Si, !.Bi = p.Bi]),
                                       Frame(f.l - 1, p.Bi, Si))
                    /\ ret' = ret
           ELSE /\ ret' = finalizeBMSSP(f.B, f.W, f.U, Dist)
                /\ stack' = SetTop([f EXCEPT !.pc = "ret"])
    /\ UNCHANGED <<pc, g, src, tg, K, T, Dist, result, D, out,
                 workers>>

(* A call of BMSSP returns (Bi_prime, Ui): to Run, or to processMainLoop,  *)
(* which does addToSet(U, Ui) and starts relaxEdges over Ui.               *)
Return ==
    /\ pc = "run" /\ stack # <<>> /\ Top.pc = "ret"
    /\ IF Len(stack) = 1
       THEN /\ stack' = <<>>
            /\ pc' = "ran"
       ELSE /\ LET parent == stack[Len(stack) - 1]
               IN  stack' = Append(SubSeq(stack, 1, Len(stack) - 2),
                                   [parent EXCEPT !.pc = "relax", !.Bip = ret.B,
                                        !.U = @ \cup ret.uset \cup SeqToSet(ret.utail),
                                        !.uset = ret.uset, !.utail = ret.utail,
                                        !.Kitems = <<>>, !.edges = <<>>])
            /\ pc' = pc
    /\ UNCHANGED <<g, src, tg, K, T, Dist, ret, result, D, out,
                 workers>>

(* relaxEdgesSequential: one edge; or the next u of Ui (the keys of the    *)
(* map first, in any order, then the tail in order); or, after the last    *)
(* one, batchPrepend and the test len(U) > limit.  relaxEdges takes this   *)
(* path when len(Ui) <= 4; no run of the model returns a longer Ui, so the *)
(* goroutines of relaxEdgesParallel are not part of the model.             *)
Relax ==
    /\ pc = "run" /\ stack # <<>> /\ Top.pc = "relax"
    /\ Cardinality(ret.uset) + Len(ret.utail) <= 4
    /\ LET f == Top
       IN  IF f.edges # <<>>
           THEN LET r == relaxEdgesSequentialEdge(f, Dist, Head(f.edges))
                IN  /\ Dist' = r.dist
                    /\ stack' = SetTop(r.frame)
                    /\ ret' = ret
           ELSE IF f.uset # {}
           THEN /\ \E u \in f.uset :
                       stack' = SetTop([f EXCEPT !.uset = @ \ {u},
                                                 !.edges = EdgesOf(tg.G, <<u>>)])
                /\ UNCHANGED <<Dist, ret>>
           ELSE IF f.utail # <<>>
           THEN /\ stack' = SetTop([f EXCEPT !.utail = Tail(@),
                                             !.edges = EdgesOf(tg.G, <<Head(f.utail)>>)])
                /\ UNCHANGED <<Dist, ret>>
           ELSE LET D2    == batchPrepend(f.D, f.Kitems, f.Si, f.Bip, f.Bi, Dist)
                    limit == K * Pow2(f.l * T)
                    U2    == buildFinalSet(f.U, f.W, f.Bip, Dist)
                IN  /\ Dist' = Dist
                    /\ IF Cardinality(f.U) > limit
                       THEN /\ ret' = finalizeBMSSP(f.B, f.W, U2, Dist)
                            /\ stack' = SetTop([f EXCEPT !.pc = "ret", !.D = D2,
                                                         !.U = U2])
                       ELSE /\ ret' = ret
                            /\ stack' = SetTop([f EXCEPT !.pc = "loop", !.D = D2])
    /\ UNCHANGED <<pc, g, src, tg, K, T, result, D, out, workers>>

(* BaseCase: one heap.Pop of the loop; a stale item is skipped, otherwise  *)
(* u joins U0 and its edges are relaxed next.                              *)
BaseCasePop ==
    /\ pc = "run" /\ stack # <<>> /\ Top.pc = "bc" /\ Top.edges = <<>>
    /\ Top.pq # <<>> /\ Cardinality(Top.U0) < K + 1
    /\ LET f == Top
           p == HeapPop(f.pq)
       IN  stack' = SetTop(
               IF p.item.priority > Dist[p.item.u]
               THEN [f EXCEPT !.pq = p.pq]
               ELSE [f EXCEPT !.pq = p.pq, !.U0 = @ \cup {p.item.u},
                              !.edges = EdgesOf(tg.G, <<p.item.u>>)])
    /\ UNCHANGED <<pc, g, src, tg, K, T, Dist, ret, result, D, out,
                 workers>>

(* BaseCase: one edge of the popped vertex.  The heap of the model holds   *)
(* at most MaxPQ items.                                                    *)
BaseCaseRelax ==
    /\ pc = "run" /\ stack # <<>> /\ Top.pc = "bc" /\ Top.edges # <<>>
    /\ LET r == BaseCaseEdge(Top, Dist, Head(Top.edges))
       IN  /\ Len(r.frame.pq) <= MaxPQ
           /\ Dist' = r.dist
           /\ stack' = SetTop(r.frame)
    /\ UNCHANGED <<pc, g, src, tg, K, T, ret, result, D, out,
                 workers>>

(* BaseCase: the loop has ended; return (B, U0) or (maxD, the closer ones) *)
BaseCaseReturn ==
    /\ pc = "run" /\ stack # <<>> /\ Top.pc = "bc" /\ Top.edges = <<>>
    /\ ~(Top.pq # <<>> /\ Cardinality(Top.U0) < K + 1)
    /\ ret' = BaseCaseResult(Top, Dist)
    /\ stack' = SetTop([Top EXCEPT !.pc = "ret"])
    /\ UNCHANGED <<pc, g, src, tg, K, T, Dist, result, D, out,
                 workers>>

(* distances := tg.MapDistances(rawDist) *)
MapDistancesStep ==
    /\ pc = "ran"
    /\ result' = MapDistances(tg, Dist)
    /\ pc' = "done"
    /\ UNCHANGED <<g, src, tg, K, T, Dist, stack, ret, D, out,
                 workers>>

Next ==
    \/ Transform
    \/ NewSolver
    \/ Run
    \/ BMSSPEnter
    \/ FindPivotsRelax
    \/ FindPivotsRound
    \/ MainLoop
    \/ Return
    \/ Relax
    \/ BaseCasePop
    \/ BaseCaseRelax
    \/ BaseCaseReturn
    \/ MapDistancesStep

Spec == Init /\ [][Next]_vars

(* Two edges into one vertex. *)
SharedTargetGraph == BuildGraph(NewGraph(3), << <<0, 2, 0>>, <<1, 2, 0>> >>)

(* The same program on the smaller seeded graphs; a sequential program     *)
(* always takes its next step.                                             *)
InitSeeded ==
    Init /\ g \in (SeededGraphs \ {QuickstartGraph}) \cup {SharedTargetGraph}

FairSpec == InitSeeded /\ [][Next]_vars /\ WF_vars(Next)

(***************************************************************************)
(* The block sequence on its own: any sequence of Insert, BatchPrepend     *)
(* (every item strictly smaller than everything present) and Pull on a     *)
(* fresh DataStructure of capacity M.  out is what the last call returned. *)
(***************************************************************************)
RECURSIVE BlockItems(_)
BlockItems(blocks) ==
    IF blocks = <<>> THEN <<>> ELSE blocks[1].items \o BlockItems(Tail(blocks))

(* Every item stored in D0 and D1, front to back. *)
Stored(ds) == BlockItems(ds.d0) \o BlockItems(ds.d1)

StoredValues(ds) == {Stored(ds)[i].Value : i \in 1..Len(Stored(ds))}

Items == {Item(k, v) : k \in 0..MaxKey, v \in 0..MaxVal}

Batches == UNION {[1..n -> Items] : n \in 1..MaxBatch}

InitDS ==
    /\ pc = "ds"
    /\ g = NewGraph(0)
    /\ src = 0
    /\ tg = NoTransform
    /\ K = 0
    /\ T = 0
    /\ Dist = <<>>
    /\ stack = <<>>
    /\ ret = NoResult
    /\ result = <<>>
    /\ D \in {NewDataStructure(m) : m \in 1..MaxM}
    /\ out = NoPull
    /\ workers = <<>>

DoInsert ==
    /\ pc = "ds" /\ D.Count < MaxCount
    /\ \E key \in 0..MaxKey, val \in 0..MaxVal :
           D' = Insert(D, key, val)
    /\ out' = [op |-> "Insert", collected |-> <<>>, Bi |-> 0]
    /\ UNCHANGED <<pc, g, src, tg, K, T, Dist, stack, ret, result,
                 workers>>

DoBatchPrepend ==
    /\ pc = "ds"
    /\ \E items \in Batches :
           /\ D.Count + Len(items) <= MaxCount
           /\ \A i \in 1..Len(items) : \A v \in StoredValues(D) : items[i].Value < v
           /\ D' = BatchPrepend(D, items)
    /\ out' = [op |-> "BatchPrepend", collected |-> <<>>, Bi |-> 0]
    /\ UNCHANGED <<pc, g, src, tg, K, T, Dist, stack, ret, result,
                 workers>>

DoPull ==
    /\ pc = "ds"
    /\ LET p == Pull(D)
       IN  /\ D' = p.ds
           /\ out' = [op |-> "Pull", collected |-> p.collected, Bi |-> p.Bi]
    /\ UNCHANGED <<pc, g, src, tg, K, T, Dist, stack, ret, result,
                 workers>>

NextDS == DoInsert \/ DoBatchPrepend \/ DoPull

SpecDS == InitDS /\ [][NextDS]_vars

(***************************************************************************)
(* The exported calls made directly, with arguments of any value: AddEdge  *)
(* with any endpoints and weight, ToConstantDegree, NewSolver, and Run     *)
(* with any source up to |V'|.  An index outside a slice is a run-time     *)
(* panic of Go: pc = "panic", and out.op names the call that panicked.     *)
(***************************************************************************)
Called(op) == [op |-> op, collected |-> <<>>, Bi |-> 0]

InitAPI ==
    /\ pc = "build"
    /\ g \in {NewGraph(n) : n \in 1..MaxN}
    /\ src = 0
    /\ tg = NoTransform
    /\ K = 0
    /\ T = 0
    /\ Dist = <<>>
    /\ stack = <<>>
    /\ ret = NoResult
    /\ result = <<>>
    /\ D = NewDataStructure(1)
    /\ out = NoPull
    /\ workers = <<>>

(* g.AddEdge(u, v, w): g.Adj[u] = append(g.Adj[u], Edge{v, w}); the only   *)
(* failure is the index u outside g.Adj.                                   *)
APIAddEdge ==
    /\ pc = "build" /\ Len(AllEdges(g)) < MaxE
    /\ \E u \in (-1)..g.V, v \in (-1)..g.V, w \in (-1)..MaxW :
           IF u \in 0..(g.V - 1)
           THEN g' = AddEdge(g, u, v, w) /\ pc' = pc
           ELSE g' = g /\ pc' = "panic"
    /\ out' = Called("AddEdge")
    /\ UNCHANGED <<src, tg, K, T, Dist, stack, ret, result, D,
                 workers>>

(* g.ToConstantDegree(): inDegree[e.To]++ indexes a slice of length V. *)
APITransform ==
    /\ pc = "build"
    /\ IF \E i \in 1..Len(AllEdges(g)) : AllEdges(g)[i][2] \notin 0..(g.V - 1)
       THEN tg' = tg /\ pc' = "panic"
       ELSE tg' = ToConstantDegree(g) /\ pc' = "transformed"
    /\ out' = Called("ToConstantDegree")
    /\ UNCHANGED <<g, src, K, T, Dist, stack, ret, result, D,
                 workers>>

(* solver.Run(source): the loop sets every entry to Infinity, then         *)
(* s.Dist[source] = 0 indexes a slice of length |V'|.                      *)
APIRun ==
    /\ pc = "solver"
    /\ \E source \in 0..tg.G.V :
           IF source < tg.G.V
           THEN /\ Dist' = [[v \in 0..(tg.G.V - 1) |-> Infinity] EXCEPT ![source] = 0]
                /\ stack' = <<Frame(LevelOf(tg.G.V), Infinity, <<source>>)>>
                /\ pc' = "run"
           ELSE /\ Dist' = [v \in 0..(tg.G.V - 1) |-> Infinity]
                /\ stack' = stack
                /\ pc' = "panic"
    /\ out' = Called("Run")
    /\ UNCHANGED <<g, src, tg, K, T, ret, result, D, workers>>

NextAPI == APIAddEdge \/ APITransform \/ NewSolver \/ APIRun

SpecAPI == InitAPI /\ [][NextAPI]_vars

(***************************************************************************)
(* relaxEdges on a list Ui of more than four vertices with more than one   *)
(* worker: relaxEdgesParallel starts one goroutine per vertex of Ui and    *)
(* waits for all of them.  The goroutines share s.Dist and D without a     *)
(* lock, so every load and store of a shared word is a step of its own:    *)
(* the load of s.Dist[vertex], the load of s.Dist[edge.To] in the test,    *)
(* the store of s.Dist[edge.To], and in D.Insert the load and the store of *)
(* ds.Count++ and then the linking of the item.  The arguments are drawn   *)
(* from a bounded set: five vertices of a transformed graph, Bi = 1,       *)
(* Bi_prime = 0, B = Infinity and an empty D of capacity 1.                *)
(***************************************************************************)
(* Five parallel edges: in the transformed graph vertex 0 is the cycle     *)
(* 0..4 and vertex 1 the cycle 5..9, with the real edges i -> 5 + i.       *)
FanInGraph ==
    BuildGraph(NewGraph(2), << <<0, 1, 2>>, <<0, 1, 1>>, <<0, 1, 1>>,
                               <<0, 1, 1>>, <<0, 1, 1>> >>)

(* The lists Ui of relaxEdges: 0 and 9 both have an edge into 5. *)
ParallelUi == {<<0, 9, 6, 8, 2>>, <<9, 2, 0, 6, 8>>}

(* The distances on entry: 0 and 9 reached, 5 not yet; the edges out of 2, *)
(* 6 and 8 lead from unreached vertices to reached ones.                   *)
ParallelDist ==
    {d \in [0..9 -> {0, 1, Infinity}] :
        /\ d[0] = 0 /\ d[9] \in {0, 1} /\ d[5] = Infinity
        /\ d[1] \in {0, Infinity}
        /\ \A v \in {2, 4, 6, 8} : d[v] = Infinity
        /\ \A v \in {3, 7} : d[v] = 0}

(* The locals of one goroutine "go func(vertexIdx, vertex int)", with what *)
(* it stored into s.Dist and how many D.Insert calls it completed.         *)
Goroutine(vertex) ==
    [vertex |-> vertex, edges |-> EdgesOf(tg.G, <<vertex>>),
     pc |-> IF tg.G.Adj[vertex] = <<>> THEN "done" ELSE "load",
     newDist |-> 0, count |-> 0, localK |-> <<>>, wrote |-> {}, inserts |-> 0]

(* "for _, edge := range s.G.Adj[vertex]" moving to the next edge. *)
NextEdge(w) ==
    [w EXCEPT !.edges = Tail(@),
              !.pc = IF Tail(w.edges) = <<>> THEN "done" ELSE "load"]

InitPar ==
    /\ pc = "par"
    /\ g = FanInGraph
    /\ src = 0
    /\ tg = ToConstantDegree(FanInGraph)
    /\ K = KOf(tg.G.V)
    /\ T = TOf(tg.G.V)
    /\ Dist \in ParallelDist
    /\ \E Ui \in ParallelUi :
           stack = <<[Frame(1, Infinity, <<>>) EXCEPT !.pc = "relax", !.Bi = 1,
                                                      !.Bip = 0, !.utail = Ui]>>
    /\ ret = NoResult
    /\ result = <<>>
    /\ D = NewDataStructure(1)
    /\ out = NoPull
    /\ workers = <<>>

(* "for i, u := range Ui { wg.Add(1); go func(...) }": the next goroutine  *)
(* is started while those started before it may already run.               *)
ParSpawn ==
    /\ pc = "par" /\ Top.utail # <<>>
    /\ workers' = Append(workers, Goroutine(Head(Top.utail)))
    /\ stack' = SetTop([Top EXCEPT !.utail = Tail(@)])
    /\ UNCHANGED <<pc, g, src, tg, K, T, Dist, ret, result, D, out>>

(* newDist := s.Dist[vertex] + edge.Weight *)
ParLoad ==
    /\ pc = "par"
    /\ \E i \in 1..Len(workers) :
           /\ workers[i].pc = "load"
           /\ workers' = [workers EXCEPT ![i].pc = "check",
                  ![i].newDist = FAdd(Dist[workers[i].vertex],
                                      Head(workers[i].edges)[3])]
    /\ UNCHANGED <<pc, g, src, tg, K, T, Dist, stack, ret, result, D, out>>

(* if newDist <= s.Dist[edge.To] *)
ParCheck ==
    /\ pc = "par"
    /\ \E i \in 1..Len(workers) :
           LET w == workers[i]
           IN  /\ w.pc = "check"
               /\ workers' = [workers EXCEPT ![i] =
                      IF w.newDist <= Dist[Head(w.edges)[2]]
                      THEN [w EXCEPT !.pc = "store"]
                      ELSE NextEdge(w)]
    /\ UNCHANGED <<pc, g, src, tg, K, T, Dist, stack, ret, result, D, out>>

(* s.Dist[edge.To] = newDist, then the choice between D.Insert, localK and *)
(* neither.                                                                *)
ParStore ==
    /\ pc = "par"
    /\ \E i \in 1..Len(workers) :
           LET w  == workers[i]
               to == Head(w.edges)[2]
               w1 == [w EXCEPT !.wrote = @ \cup {<<to, w.newDist>>}]
           IN  /\ w.pc = "store"
               /\ Dist' = [Dist EXCEPT ![to] = w.newDist]
               /\ workers' = [workers EXCEPT ![i] =
                      IF w.newDist >= Top.Bi /\ w.newDist < Top.B
                      THEN [w1 EXCEPT !.pc = "count"]
                      ELSE IF w.newDist >= Top.Bip /\ w.newDist < Top.Bi
                      THEN NextEdge([w1 EXCEPT !.localK =
                                        Append(@, Item(to, w.newDist))])
                      ELSE NextEdge(w1)]
    /\ UNCHANGED <<pc, g, src, tg, K, T, stack, ret, result, D, out>>

(* D.Insert, "ds.Count++": the load of ds.Count *)
ParCount ==
    /\ pc = "par"
    /\ \E i \in 1..Len(workers) :
           /\ workers[i].pc = "count"
           /\ workers' = [workers EXCEPT ![i].pc = "incr", ![i].count = D.Count]
    /\ UNCHANGED <<pc, g, src, tg, K, T, Dist, stack, ret, result, D, out>>

(* D.Insert, "ds.Count++": the store of ds.Count *)
ParIncr ==
    /\ pc = "par"
    /\ \E i \in 1..Len(workers) :
           /\ workers[i].pc = "incr"
           /\ D' = [D EXCEPT !.Count = workers[i].count + 1]
           /\ workers' = [workers EXCEPT ![i].pc = "link"]
    /\ UNCHANGED <<pc, g, src, tg, K, T, Dist, stack, ret, result, out>>

(* D.Insert after ds.Count++: the search of the block, the linking of the  *)
(* item and the split.                                                     *)
ParLink ==
    /\ pc = "par"
    /\ \E i \in 1..Len(workers) :
           LET w == workers[i]
           IN  /\ w.pc = "link"
               /\ D' = [Insert(D, Head(w.edges)[2], w.newDist)
                            EXCEPT !.Count = D.Count]
               /\ workers' = [workers EXCEPT ![i] =
                                  NextEdge([w EXCEPT !.inserts = @ + 1])]
    /\ UNCHANGED <<pc, g, src, tg, K, T, Dist, stack, ret, result, out>>

(* The concatenation of results[0], results[1], ... *)
RECURSIVE MergeResults(_)
MergeResults(ws) ==
    IF ws = <<>> THEN <<>> ELSE ws[1].localK \o MergeResults(Tail(ws))

(* wg.Wait() and the merge of the results into totalK. *)
ParMerge ==
    /\ pc = "par" /\ Top.utail = <<>>
    /\ \A i \in 1..Len(workers) : workers[i].pc = "done"
    /\ stack' = SetTop([Top EXCEPT !.Kitems = MergeResults(workers)])
    /\ pc' = "merged"
    /\ UNCHANGED <<g, src, tg, K, T, Dist, ret, result, D, out, workers>>

NextPar ==
    \/ ParSpawn
    \/ ParLoad
    \/ ParCheck
    \/ ParStore
    \/ ParCount
    \/ ParIncr
    \/ ParLink
    \/ ParMerge

SpecPar == InitPar /\ [][NextPar]_vars

(***************************************************************************)
(* The end of an iteration of processMainLoop with len(U) > limit, at the  *)
(* interface of BMSSP (an exported method): a call BMSSP(1, B, S) on the   *)
(* ten-vertex transformed graph, K = T = 2 and limit = 8, stands after     *)
(* addToSet(U, Ui) with nine vertices in U, Ui already relaxed, and the    *)
(* one vertex outside U in W.  B, Bi, Bi_prime and the distance of that    *)
(* vertex are drawn from a bounded set.                                    *)
(***************************************************************************)
EarlyBounds ==
    {b \in [B : {2, 3, Infinity}, Bi : {1, 2, 3}, Bip : {0, 1, 2}] :
        b.Bip <= b.Bi /\ b.Bi <= b.B}

InitEarly ==
    /\ pc = "run"
    /\ g = FanInGraph
    /\ src = 0
    /\ tg = ToConstantDegree(FanInGraph)
    /\ K = KOf(tg.G.V)
    /\ T = TOf(tg.G.V)
    /\ \E w \in 0..9, d \in {0, 1, 2, Infinity}, b \in EarlyBounds :
           /\ Dist = [v \in 0..9 |-> IF v = w THEN d ELSE 0]
           /\ stack = <<[Frame(1, b.B, <<0>>) EXCEPT
                             !.pc = "relax", !.W = <<0, w>>, !.inW = {0, w},
                             !.U = (0..9) \ {w}, !.Si = <<0>>,
                             !.Bi = b.Bi, !.Bip = b.Bip]>>
    /\ ret = NoResult
    /\ result = <<>>
    /\ D = NewDataStructure(1)
    /\ out = NoPull
    /\ workers = <<>>

NextEarly == Relax \/ Return

SpecEarly == InitEarly /\ [][NextEarly]_vars

(***************************************************************************)
(* sssp/sssp_bench_test.go: the reference implementation.                  *)
(***************************************************************************)
RECURSIVE FindMin(_, _, _, _, _)
FindMin(gr, dist, visited, v, best) ==
    IF v >= gr.V THEN best.u
    ELSE IF v \notin visited /\ dist[v] < best.minDist
         THEN FindMin(gr, dist, visited, v + 1, [u |-> v, minDist |-> dist[v]])
         ELSE FindMin(gr, dist, visited, v + 1, best)

RECURSIVE RelaxFrom(_, _, _)
RelaxFrom(dist, u, edges) ==
    IF edges = <<>> THEN dist
    ELSE LET v == edges[1].To
             w == edges[1].Weight
         IN  RelaxFrom(IF FAdd(dist[u], w) < dist[v]
                       THEN [dist EXCEPT ![v] = FAdd(dist[u], w)]
                       ELSE dist,
                       u, Tail(edges))

RECURSIVE DijkstraLoop(_, _, _, _)
DijkstraLoop(gr, dist, visited, count) ==
    IF count >= gr.V THEN dist
    ELSE LET u == FindMin(gr, dist, visited, 0, [u |-> -1, minDist |-> Infinity])
         IN  IF u = -1 THEN dist
             ELSE DijkstraLoop(gr, RelaxFrom(dist, u, gr.Adj[u]),
                               visited \cup {u}, count + 1)

naiveDijkstra(gr, source) ==
    DijkstraLoop(gr, [[v \in 0..(gr.V - 1) |-> Infinity] EXCEPT ![source] = 0], {}, 0)

(***************************************************************************)
(* Properties.                                                             *)
(***************************************************************************)

(* C1: when the pipeline ToConstantDegree, NewSolver, Run(start[s]),        *)
(* MapDistances has finished, the mapped distance of every original vertex *)
(* is the distance the reference Dijkstra computes on the original graph.   *)
C1_MatchesDijkstra ==
    pc = "done" => result = naiveDijkstra(g, src)

(* C2: on the 5-vertex graph of QUICKSTART.md, source 0, the mapped         *)
(* distances are 0, 7, 5, 8, 7.                                             *)
C2_QuickstartDistances ==
    (pc = "done" /\ g = QuickstartGraph /\ src = 0)
        => result = [v \in 0..4 |-> <<0, 7, 5, 8, 7>>[v + 1]]

(* C3: for the graph with one vertex and no edges the pipeline finishes,    *)
(* with the mapped distance vector [0].                                     *)
C3_SingleVertex ==
    (g = NewGraph(1)) ~> (pc = "done" /\ result = [v \in 0..0 |-> 0])

(* C4: Run terminates, so the main loop of BMSSP cannot repeat forever:     *)
(* from some point on no call is at the head of processMainLoop's loop.     *)
C4_MainLoopEnds ==
    <>[](~(pc = "run" /\ stack # <<>> /\ Top.pc = "loop"))

(* C5: when Run has returned, every edge (u -> v, w) of the transformed     *)
(* graph whose tail has a finite distance satisfies Dist[v] <= Dist[u] + w. *)
C5_TriangleOnReturn ==
    pc \in {"ran", "done"} =>
        \A i \in 1..Len(AllEdges(tg.G)) :
            LET e == AllEdges(tg.G)[i]
            IN  Dist[e[1]] < Infinity => Dist[e[2]] <= FAdd(Dist[e[1]], e[3])

OutDeg(gr, x) == Cardinality({i \in 1..Len(AllEdges(gr)) : AllEdges(gr)[i][1] = x})

InDeg(gr, x) == Cardinality({i \in 1..Len(AllEdges(gr)) : AllEdges(gr)[i][2] = x})

(* C7: every vertex of the transformed graph has out-degree <= 2 and        *)
(* in-degree <= 2: its cycle edge each way and at most one real endpoint.   *)
C7_ConstantDegree ==
    pc = "transformed" =>
        \A x \in 0..(tg.G.V - 1) :
            /\ OutDeg(tg.G, x) <= 2
            /\ InDeg(tg.G, x) <= 2
            /\ OutDeg(tg.G, x) + InDeg(tg.G, x) <= 3

(* C7 witness: a transformed graph of an input with a self-loop or parallel *)
(* edges and an isolated vertex, with a vertex of out-degree 2 and one of   *)
(* in-degree 2.                                                             *)
C7_Witness ==
    /\ pc = "transformed"
    /\ \E u \in 0..(g.V - 1) : Len(g.Adj[u]) = 0 /\ InDeg(g, u) = 0
    /\ \E u \in 0..(g.V - 1) : \E i \in 1..Len(g.Adj[u]) :
           g.Adj[u][i].To = u \/ \E j \in 1..Len(g.Adj[u]) :
                                     j # i /\ g.Adj[u][j].To = g.Adj[u][i].To
    /\ \E x \in 0..(tg.G.V - 1) : OutDeg(tg.G, x) = 2
    /\ \E x \in 0..(tg.G.V - 1) : InDeg(tg.G, x) = 2

(* s_v = max(1, indeg(v) + outdeg(v)) *)
CycleSize(v) ==
    IF InDeg(g, v) + OutDeg(g, v) = 0 THEN 1 ELSE InDeg(g, v) + OutDeg(g, v)

(* C8: the id ranges [start[v], start[v] + s_v) partition 0..|V'|-1 in      *)
(* increasing vertex order, NewToOrigin[x] = v exactly on v's range, and    *)
(* each range is one zero-weight cycle i -> (i+1) mod s_v.                  *)
C8_CycleRanges ==
    pc = "transformed" =>
        /\ tg.OriginalTo[0] = 0
        /\ \A v \in 0..(g.V - 2) :
               tg.OriginalTo[v + 1] = tg.OriginalTo[v] + CycleSize(v)
        /\ tg.G.V = tg.OriginalTo[g.V - 1] + CycleSize(g.V - 1)
        /\ DOMAIN tg.NewToOrigin = 0..(tg.G.V - 1)
        /\ \A v \in 0..(g.V - 1) : \A x \in 0..(tg.G.V - 1) :
               (tg.NewToOrigin[x] = v) <=>
                   (tg.OriginalTo[v] <= x /\ x < tg.OriginalTo[v] + CycleSize(v))
        /\ \A v \in 0..(g.V - 1) : \A i \in 0..(CycleSize(v) - 1) :
               tg.G.Adj[tg.OriginalTo[v] + i][1] =
                   Edge(tg.OriginalTo[v] + ((i + 1) % CycleSize(v)), 0)

(* C8 witness: a transformed graph with a cycle of one vertex (an isolated  *)
(* vertex) and a cycle of at least three.                                   *)
C8_Witness ==
    /\ pc = "transformed"
    /\ \E v \in 0..(g.V - 1) : InDeg(g, v) + OutDeg(g, v) = 0
    /\ \E v \in 0..(g.V - 1) : CycleSize(v) >= 3
    /\ g.V >= 2

(* C9: the distance in the transformed graph from start[u] to any slot of   *)
(* v's cycle is the distance from u to v in the original graph (Infinity    *)
(* on both sides when v is unreachable).                                    *)
C9_DistancesPreserved ==
    pc = "transformed" =>
        \A u \in 0..(g.V - 1) :
            LET d  == naiveDijkstra(g, u)
                dT == naiveDijkstra(tg.G, tg.OriginalTo[u])
            IN  \A x \in 0..(tg.G.V - 1) : dT[x] = d[tg.NewToOrigin[x]]

(* C9 witness: an input where some vertex is reached over two edges at a    *)
(* positive distance and some vertex is unreachable.                        *)
C9_Witness ==
    /\ pc = "transformed"
    /\ \E u \in 0..(g.V - 1) :
           LET d == naiveDijkstra(g, u)
           IN  /\ \E v \in 0..(g.V - 1) : d[v] = Infinity
               /\ \E v \in 0..(g.V - 1) :
                      /\ d[v] > 0 /\ d[v] < Infinity
                      /\ \A i \in 1..Len(g.Adj[u]) : g.Adj[u][i].To # v

(* C10: every value a Pull returns is <= every value that remains stored.   *)
C10_PullReturnsPrefix ==
    (pc = "ds" /\ out.op = "Pull") =>
        \A i \in 1..Len(out.collected) : \A v \in StoredValues(D) :
            out.collected[i].Value <= v

(* The smallest value stored, Infinity when nothing is stored. *)
MinStored(ds) ==
    IF StoredValues(ds) = {} THEN Infinity
    ELSE CHOOSE m \in StoredValues(ds) : \A v \in StoredValues(ds) : m <= v

(* C11: the boundary a Pull returns is the minimum value still stored in   *)
(* D0 and D1 after the pull, and it is Infinity exactly when nothing is    *)
(* stored after the pull.                                                  *)
C11_BoundaryIsMinimum ==
    (pc = "ds" /\ out.op = "Pull") =>
        /\ out.Bi = MinStored(D)
        /\ (out.Bi = Infinity) <=> (Stored(D) = <<>>)

(* C12: Count is the number of stored items after every operation: Insert  *)
(* adds 1, BatchPrepend adds the length of its batch, and Pull returns     *)
(* min(M, Count) items and lowers Count by that number.                    *)
C12_CountTracksItems ==
    [][pc = "ds" =>
        /\ D'.Count = Len(Stored(D'))
        /\ out'.op = "Insert" => D'.Count = D.Count + 1
        /\ out'.op = "BatchPrepend" =>
               \E items \in Batches :
                   D' = BatchPrepend(D, items) /\ D'.Count = D.Count + Len(items)
        /\ out'.op = "Pull" =>
               /\ Len(out'.collected) = Min2(D.M, D.Count)
               /\ D'.Count = D.Count - Len(out'.collected)]_vars

(* C12 witness: a Pull that stopped at M items and left items in both      *)
(* lists.                                                                  *)
C12_Witness ==
    /\ pc = "ds" /\ out.op = "Pull" /\ Len(out.collected) = D.M
    /\ D.d0 # <<>> /\ D.d1 # <<>> /\ D.Count >= 2

(* C18: every value stored in D0 is strictly smaller than every value      *)
(* stored in D1.                                                           *)
C18_D0BelowD1 ==
    pc = "ds" =>
        \A i \in 1..Len(BlockItems(D.d0)) : \A j \in 1..Len(BlockItems(D.d1)) :
            BlockItems(D.d0)[i].Value < BlockItems(D.d1)[j].Value

(* C19: each block's upperBound is >= every value in the block, the        *)
(* upperBounds of D1 do not decrease along the list, and a non-empty D1    *)
(* ends with a block of upperBound Infinity.                               *)
C19_UpperBounds ==
    pc = "ds" =>
        /\ \A i \in 1..Len(D.d0) : \A k \in 1..Len(D.d0[i].items) :
               D.d0[i].items[k].Value <= D.d0[i].upperBound
        /\ \A i \in 1..Len(D.d1) : \A k \in 1..Len(D.d1[i].items) :
               D.d1[i].items[k].Value <= D.d1[i].upperBound
        /\ \A i \in 1..(Len(D.d1) - 1) : D.d1[i].upperBound <= D.d1[i + 1].upperBound
        /\ D.d1 # <<>> => D.d1[Len(D.d1)].upperBound = Infinity

(* C19 witness: D1 holds at least two blocks after a split, and a Pull has *)
(* removed a drained block.                                                *)
C19_Witness ==
    /\ pc = "ds" /\ out.op = "Pull" /\ Len(D.d1) >= 2 /\ D.d0 # <<>>
    /\ D.d1[1].upperBound < Infinity

(* C20: after every operation each block of D0 and D1 holds at least one   *)
(* and at most M items.                                                    *)
C20_BlockSizes ==
    pc = "ds" =>
        /\ \A i \in 1..Len(D.d0) :
               Len(D.d0[i].items) >= 1 /\ Len(D.d0[i].items) <= D.M
        /\ \A i \in 1..Len(D.d1) :
               Len(D.d1[i].items) >= 1 /\ Len(D.d1[i].items) <= D.M

(* C20 witness: after a Pull with M = 2 that emptied one block and took    *)
(* one of the two items of the next block of D1.                           *)
C20_Witness ==
    /\ pc = "ds" /\ out.op = "Pull" /\ D.M = 2 /\ Len(out.collected) = 2
    /\ D.d0 = <<>> /\ D.d1 # <<>> /\ Len(D.d1[1].items) = 1
    /\ out.collected[1].Value < out.collected[2].Value

(* C17: when Run(start[s]) has returned, the distance of the source is 0,  *)
(* in the solver's vector and in the mapped one.                           *)
C17_SourceDistanceZero ==
    /\ pc \in {"ran", "done"} => Dist[tg.OriginalTo[src]] = 0
    /\ pc = "done" => result[src] = 0

(* C17 witness: a finished run whose source has a self-loop of positive    *)
(* weight.                                                                 *)
C17_Witness ==
    /\ pc = "done"
    /\ \E i \in 1..Len(g.Adj[src]) : g.Adj[src][i].To = src /\ g.Adj[src][i].Weight > 0

(* C13: an edge with a negative weight or an endpoint outside 0..n-1 is    *)
(* refused with an error: no call panics on it, and it is never stored in  *)
(* the graph nor in the transformed graph handed to the solver.            *)
C13_InvalidEdgeRefused ==
    /\ ~(pc = "panic" /\ out.op \in {"AddEdge", "ToConstantDegree"})
    /\ \A i \in 1..Len(AllEdges(g)) :
           /\ AllEdges(g)[i][1] \in 0..(g.V - 1)
           /\ AllEdges(g)[i][2] \in 0..(g.V - 1)
           /\ AllEdges(g)[i][3] >= 0
    /\ \A i \in 1..Len(AllEdges(tg.G)) : AllEdges(tg.G)[i][3] >= 0

(* C14: Run(src) with src >= |V'| does not crash. *)
C14_InvalidSourceRefused ==
    ~(pc = "panic" /\ out.op = "Run")

(* C15: the relax step behaves as a sequential computation in every        *)
(* interleaving of the goroutines of relaxEdgesParallel: no two goroutines *)
(* are between the test and the store of the same s.Dist[v], no two are    *)
(* inside D.Insert at once, and when all have finished no s.Dist[v] is     *)
(* above a candidate stored into it and D.Count is the number of Inserts.  *)
RECURSIVE TotalInserts(_)
TotalInserts(ws) ==
    IF ws = <<>> THEN 0 ELSE ws[1].inserts + TotalInserts(Tail(ws))

C21_D0Ascending ==
    (pc = "ds" /\ out.op = "BatchPrepend") =>
        \A a, b \in 1..Len(D.d0) :
            a < b => \A i \in 1..Len(D.d0[a].items) : \A j \in 1..Len(D.d0[b].items) :
                         D.d0[a].items[i].Value <= D.d0[b].items[j].Value

(* The number of times x occurs in the sequence s. *)
Occurrences(s, x) == Cardinality({i \in 1..Len(s) : s[i] = x})

(* C30: no operation loses or duplicates an item: an Insert adds exactly   *)
(* its pair to what is stored, a BatchPrepend exactly the pairs of its     *)
(* batch, and the pairs a Pull returns together with those still stored    *)
(* are those stored before it.                                             *)
C30_ItemsConserved ==
    [][pc = "ds" =>
        /\ out'.op = "Insert" =>
               \A key \in 0..MaxKey, val \in 0..MaxVal :
                   D' = Insert(D, key, val) =>
                       \A x \in Items :
                           Occurrences(Stored(D'), x) =
                               Occurrences(Stored(D), x) + (IF x = Item(key, val) THEN 1 ELSE 0)
        /\ out'.op = "BatchPrepend" =>
               \A items \in Batches :
                   D' = BatchPrepend(D, items) =>
                       \A x \in Items :
                           Occurrences(Stored(D'), x) =
                               Occurrences(Stored(D), x) + Occurrences(items, x)
        /\ out'.op = "Pull" =>
               \A x \in Items :
                   Occurrences(Stored(D'), x) + Occurrences(out'.collected, x) =
                       Occurrences(Stored(D), x)]_vars

(* C30 witness: a Pull returned the same pair twice and left items stored. *)
C30_Witness ==
    /\ pc = "ds" /\ out.op = "Pull" /\ Len(out.collected) = 2
    /\ out.collected[1] = out.collected[2]
    /\ Stored(D) # <<>>

StoredKeys(ds) == {Stored(ds)[i].Key : i \in 1..Len(Stored(ds))}

(* C22: on return from FindPivots(B, S): P is a subset of S (P is what     *)
(* initializeDataStructure inserts, and is empty when BMSSP returns at     *)
(* once), S is a subset of W, W contains no vertex twice, and every vertex *)
(* of W that is not in S has dist < B.                                     *)
C22_FindPivotsResult ==
    [][(/\ pc = "run" /\ stack # <<>> /\ Top.pc = "fp"
        /\ Len(stack') = Len(stack) /\ Top'.pc \in {"loop", "ret"}) =>
           /\ StoredKeys(Top'.D) \subseteq SeqToSet(Top.S)
           /\ (Top'.pc = "loop") <=> (StoredKeys(Top'.D) # {})
           /\ SeqToSet(Top.S) \subseteq SeqToSet(Top'.W)
           /\ \A i, j \in 1..Len(Top'.W) : i # j => Top'.W[i] # Top'.W[j]
           /\ \A w \in SeqToSet(Top'.W) \ SeqToSet(Top.S) : Dist'[w] < Top.B]_vars

(* C22 witness: FindPivots has returned a pivot and a W of more than       *)
(* K * |S| vertices, and the main loop is about to start.                  *)
C22_Witness ==
    /\ pc = "run" /\ stack # <<>> /\ Top.pc = "loop"
    /\ Top.Si = <<>> /\ Top.U = {} /\ Top.D.Count >= 1
    /\ Len(Top.W) > K * Len(Top.S)

(* C23: FindPivots terminates, also when the vertices of W equal in        *)
(* distance form a zero-weight cycle or self-loop: a call in FindPivots    *)
(* leaves it, and the subtree sizes computed for the vertices of S leave   *)
(* no vertex marked as being on the stack, a vertex whose only child is    *)
(* itself having size 1 + 1.                                               *)
C23_FindPivotsTerminates ==
    /\ [](\A n \in 1..3 :
            (pc = "run" /\ Len(stack) = n /\ Top.pc = "fp")
                => <>(~(pc = "run" /\ Len(stack) = n /\ Top.pc = "fp")))
    /\ []((pc = "run" /\ stack # <<>> /\ Top.pc = "fp" /\ Top.edges = <<>>) =>
            \A k \in 1..Len(Top.S) :
                LET u == Top.S[k]
                    r == calcSize(tg.G, Dist, Top.inW,
                                  [v \in 0..(tg.G.V - 1) |-> 0], u)
                IN  /\ r.count >= 1
                    /\ \A v \in 0..(tg.G.V - 1) : r.memoSize[v] >= 0
                    /\ (\A i \in 1..Len(tg.G.Adj[u]) :
                            LET e == tg.G.Adj[u][i]
                            IN  (e.To \in Top.inW /\ Dist[e.To] = FAdd(Dist[u], e.Weight))
                                    => e.To = u)
                           => r.count = 1 + Cardinality(
                                  {i \in 1..Len(tg.G.Adj[u]) :
                                      /\ tg.G.Adj[u][i].To = u
                                      /\ tg.G.Adj[u][i].Weight = 0}))

(* C23 witness: computePivots has selected a vertex that has a zero-weight *)
(* edge to itself, and the main loop is about to start.                    *)
C23_Witness ==
    /\ pc = "run" /\ stack # <<>> /\ Top.pc = "loop"
    /\ Top.Si = <<>> /\ Top.U = {} /\ Top.D.Count >= 1
    /\ Len(Top.W) <= K * Len(Top.S)
    /\ \E i \in 1..Len(tg.G.Adj[Top.S[1]]) :
           /\ tg.G.Adj[Top.S[1]][i].To = Top.S[1]
           /\ tg.G.Adj[Top.S[1]][i].Weight = 0

(* C24: BaseCase(B, S) terminates: a call that is in BaseCase leaves it,    *)
(* also when the popped vertex lies on a zero-weight self-loop or on a     *)
(* zero-weight cycle of fewer than K + 1 vertices.                         *)
C24_BaseCaseTerminates ==
    [](\A n \in 1..3 :
          (pc = "run" /\ Len(stack) = n /\ Top.pc = "bc")
              => <>(~(pc = "run" /\ Len(stack) = n /\ Top.pc = "bc")))

(* The batch that batchPrepend hands to D.BatchPrepend: K, then the x of   *)
(* Si with Bi_prime <= Dist[x] < Bi.                                       *)
batchItems(Kitems, Si, Bi_prime, Bi, dist) ==
    LET keep == SelectSeq(Si, LAMBDA x : dist[x] >= Bi_prime /\ dist[x] < Bi)
    IN  Kitems \o [i \in 1..Len(keep) |-> Item(keep[i], dist[keep[i]])]

(* A call is at the end of relaxEdges, about to run batchPrepend. *)
AtBatchPrepend ==
    /\ pc = "run" /\ stack # <<>> /\ Top.pc = "relax"
    /\ Top.edges = <<>> /\ Top.uset = {} /\ Top.utail = <<>>

C28_ReturnedAreComplete ==
    (pc = "run" /\ stack # <<>> /\ Top.pc = "ret") =>
        /\ ret.B <= Top.B
        /\ \A u \in ret.uset \cup SeqToSet(ret.utail) :
               /\ Dist[u] = naiveDijkstra(tg.G, tg.OriginalTo[src])[u]
               /\ Dist[u] < ret.B

(* The pairs <<v, w>> such that gr has a path of total weight w <= cap     *)
(* from a vertex of R to v (the pairs of R included).                      *)
RECURSIVE PathWeights(_, _, _)
PathWeights(gr, cap, R) ==
    LET step == UNION {{<<gr.Adj[p[1]][i].To, p[2] + gr.Adj[p[1]][i].Weight>> :
                           i \in {j \in 1..Len(gr.Adj[p[1]]) :
                                     p[2] + gr.Adj[p[1]][j].Weight <= cap}} : p \in R}
    IN  IF step \subseteq R THEN R ELSE PathWeights(gr, cap, R \cup step)

(* The largest finite distance of dist, 0 when there is none. *)
MaxFinite(dist) ==
    LET fin == {dist[v] : v \in DOMAIN dist} \ {Infinity}
    IN  IF fin = {} THEN 0 ELSE CHOOSE m \in fin : \A d \in fin : d <= m

(* C29: at every point of a Run, every finite dist[v] is the total weight  *)
(* of some path from the source to v in the transformed graph; so it is    *)
(* not below the shortest-path distance and not negative.                  *)
C29_DistIsPathWeight ==
    (pc \in {"run", "ran", "done"}) =>
        LET source == tg.OriginalTo[src]
            paths  == PathWeights(tg.G, MaxFinite(Dist), {<<source, 0>>})
            true   == naiveDijkstra(tg.G, source)
        IN  \A v \in DOMAIN Dist :
                Dist[v] < Infinity =>
                    /\ <<v, Dist[v]>> \in paths
                    /\ Dist[v] >= true[v]
                    /\ Dist[v] >= 0

(* C29 witness: relaxEdges has run over a returned vertex, and a vertex    *)
(* other than the source has a finite distance above 0.                    *)
C29_Witness ==
    /\ pc = "run" /\ stack # <<>> /\ Top.pc = "relax" /\ Top.edges # <<>>
    /\ \E v \in DOMAIN Dist : Dist[v] > 0 /\ Dist[v] < Infinity

====
